---- MODULE Spec2Model ----
(***************************************************************************)
(* Model of search-rs: the recency-ranking aggregator                      *)
(* (src/search/sorter.rs, FileSorter) that merges batches of search        *)
(* results into one global order, and the memoized modification-time       *)
(* lookup it ranks by; and the session state (src/tui/app.rs, App) that   *)
(* mirrors the global order, keeps the selection and the status, and       *)
(* caches rendered lines.                                                  *)
(***************************************************************************)
EXTENDS Integers, Sequences, FiniteSets, TLC

\* ---------------------------------------------------------------- bounds
MaxLine == 2
MaxTime == 2
MaxBatch == 2
MaxGlobal == 3
MaxCount == 1
MaxRow == 3
MaxTop == 1
MaxCacheLimit == 5
MaxVisible == 3
MaxPathLen == 5
MaxBaseLen == 2
MaxMoves == 5
MaxPatternLen == 2

\* The width of a commit timestamp in the model (i64 in the source)
TimestampBits == 7

\* ------------------------------------------------------------- constants
\* SystemTime::UNIX_EPOCH, as seconds since the epoch
UNIX_EPOCH == 0

\* Option<T>: None and Some(x)
None == <<>>
Some(x) == <<x>>
unwrap(o) == o[1]

Paths == {<<"a">>, <<"b">>}
Lines == 1..MaxLine

\* SystemTime values the backends can report (seconds since the epoch)
Times == UNIX_EPOCH..MaxTime

\* struct SearchResult, the fields the sorter reads
SearchResult == [file_path : Paths, line_number : Lines]

\* format!("{}:{}", file_path, line_number): the line number is a run of
\* digits after the last ':', so the string determines the pair and the
\* pair the string.
cache_key(r) == <<r.file_path, r.line_number>>

Keys == {cache_key(r) : r \in SearchResult}

\* What the backends answer for one key at the moment they are asked:
\* blame is the commit timestamp the blame step ends with (None when any of
\* its fallible steps fails), fs is fs::metadata(..).modified() (None on Err).
Option(S) == {None} \cup {Some(x) : x \in S}
Answers == [blame : Option(Times), fs : Option(Times)]

\* HashMap::new()
EmptyCache == [k \in {} |-> UNIX_EPOCH]

\* HashMap::insert
Insert(cache, k, v) == [x \in (DOMAIN cache) \cup {k} |-> IF x = k THEN v ELSE cache[x]]

\* Vec<SearchResult> of bounded length
RECURSIVE SeqsUpTo(_, _)
SeqsUpTo(S, n) ==
    IF n = 0 THEN {<<>>}
    ELSE LET shorter == SeqsUpTo(S, n - 1)
         IN shorter \cup {Append(s, x) : s \in {t \in shorter : Len(t) = n - 1}, x \in S}

Batches == SeqsUpTo(SearchResult, MaxBatch)

\* How often the result x occurs in results
Count(x, results) == Cardinality({i \in DOMAIN results : results[i] = x})

VARIABLES
    enabled,          \* FileSorter.enabled
    global_results,   \* FileSorter.global_results
    metadata_cache,   \* FileSorter.metadata_cache
    git_repo,         \* FileSorter.git_repo.is_some()
    panicked,         \* the last call unwound with a panic
    last_op,          \* the method called last
    last_batch,       \* its arguments: the results it takes, or the click's row, top and height
    last_ret,         \* its return value, where it returns one
    last_lookups,     \* the get_modification_time calls it made
    arrived,          \* history: the batches added since new()/clear(), concatenated
    modes,            \* history: the values of enabled those batches were added under
    last_discarded,   \* the keys whose memoized time it dropped, for clear
    merge_call,       \* the locals of the merge routine while it runs, if one runs
    search_results,                 \* App.search_results
    selected_index,                 \* App.selected_index
    current_pattern,                \* App.current_pattern
    should_quit,                    \* App.should_quit
    input_focus,                    \* App.input_focus
    search_progress,                \* App.search_progress
    progressive_load_status,        \* App.progressive_load_status
    needs_progressive_load_check,   \* App.needs_progressive_load_check
    highlighted_cache,              \* App.highlighted_cache
    cache_size_limit,               \* App.cache_size_limit
    last_rendered,    \* the results the last call ran the highlighter on
    last_evicted,     \* the render-cache keys the last call removed
    superseded,       \* a search was running when the session was reset: its
                      \* batches may still be on their way
    stale_merged      \* the results of such batches merged since the last reset

\* struct FileSorter, with the record of its last call
sorterVars == <<enabled, global_results, metadata_cache, git_repo, panicked,
                last_lookups, arrived, modes, last_discarded, merge_call>>

\* struct App without its sorter, with the record of its last call
appVars == <<search_results, selected_index, current_pattern, should_quit, input_focus,
             search_progress, progressive_load_status, needs_progressive_load_check,
             highlighted_cache, cache_size_limit, last_rendered, last_evicted,
             superseded, stale_merged>>

vars == <<sorterVars, appVars, last_op, last_batch, last_ret>>

\* SearchResult::line_content: a line, and the same line indented
Contents == {"x", " x"}

\* SearchResult::base_dir
BaseDirs == Option({<<"a">>})

\* A path is the sequence of its characters
Chars == {".", "/", "a"}
PathStrings == SeqsUpTo(Chars, MaxPathLen)
BaseStrings == SeqsUpTo(Chars, MaxBaseLen)

\* str::starts_with
starts_with(s, prefix) ==
    Len(prefix) <= Len(s) /\ SubSeq(s, 1, Len(prefix)) = prefix

\* str::strip_prefix
strip_prefix(s, prefix) ==
    IF starts_with(s, prefix) THEN Some(SubSeq(s, Len(prefix) + 1, Len(s))) ELSE None

\* Option::unwrap_or
unwrap_or(o, default) == IF o = None THEN default ELSE unwrap(o)

\* compute_display_path comparing with the base directory before it strips "./"
compute_display_path_strips_last(file_path, base_dir) ==
    LET relative == IF base_dir = None THEN None
                    ELSE strip_prefix(file_path, unwrap(base_dir))
        path == IF relative # None
                THEN unwrap_or(strip_prefix(unwrap(relative), <<"/">>), unwrap(relative))
                ELSE file_path
    IN IF starts_with(path, <<".", "/">>) THEN SubSeq(path, 3, Len(path)) ELSE path

\* SearchResult::compute_display_path
compute_display_path(file_path, base_dir) ==
    LET cleaned_path == IF starts_with(file_path, <<".", "/">>)
                        THEN SubSeq(file_path, 3, Len(file_path))
                        ELSE file_path
        relative == IF base_dir = None THEN None
                    ELSE strip_prefix(cleaned_path, unwrap(base_dir))
    IN IF relative # None
       THEN unwrap_or(strip_prefix(unwrap(relative), <<"/">>), unwrap(relative))
       ELSE cleaned_path

\* SearchResult::new (matched_text and line_colored_content are not read by
\* the code modelled here)
new(file_path, line_number, line_content, base_dir) ==
    [file_path |-> file_path, line_number |-> line_number,
     line_content |-> line_content, base_dir |-> base_dir,
     display_path |-> compute_display_path(file_path, base_dir)]

\* struct SearchResult, as the session holds it and the render cache reads it
ShownResult ==
    {new(f, l, c, b) : f \in Paths, l \in Lines, c \in Contents, b \in BaseDirs}

\* The results the session is fed: one line of each file
SessionResults == {new(f, 1, "x", None) : f \in Paths}
Visible == SeqsUpTo(SessionResults, MaxVisible)

\* The results rendered through the cache: every path, line and text, and one
\* result also under a base directory
CacheResults ==
    {r \in ShownResult :
        r.base_dir = None \/ (r.file_path = <<"a">> /\ r.line_number = 1 /\ r.line_content = "x")}

\* The lists the session is given while the cache is watched
CacheLists == SeqsUpTo({new(<<"a">>, 1, "x", None)}, 1)

\* cache_size_limit is a field set at construction; the render-cache
\* specification draws it from these
CacheLimits == 1..MaxCacheLimit

\* usize counters (files found, results loaded)
Counts == 0..MaxCount

\* struct ProgressiveLoadStatus
ProgressiveLoadStatus ==
    [total_loaded : Counts, loading_complete : BOOLEAN,
     total_files_found : Counts, load_threshold : {MaxCount}]

\* App::current_pattern
Patterns == {"", "p"}

\* Terminal rows (u16), and list indices
Rows == 0..MaxRow

\* The rows the results area can start at (u16)
Tops == 0..MaxTop

\* SearchProgress::new()
SearchProgressNew ==
    [files_with_matches |-> 0, is_searching |-> FALSE, is_complete |-> FALSE]

\* cache_size_limit: 1000 in App::new()
CACHE_SIZE_LIMIT == 1000

\* ------------------------------------------------------------ the Oracle

\* git2::Time::seconds() is an i64; the model keeps the two's complement
\* arithmetic at a width of TimestampBits bits.
I64_MIN == 0 - 2^(TimestampBits - 1)
I64_MAX == 2^(TimestampBits - 1) - 1
I64 == I64_MIN..I64_MAX

\* -timestamp in a build without overflow checks
wrapping_neg(timestamp) == IF timestamp = I64_MIN THEN I64_MIN ELSE 0 - timestamp

\* timestamp as u64
as_u64(timestamp) == IF timestamp < 0 THEN timestamp + 2^TimestampBits ELSE timestamp

\* SystemTime::checked_sub, the seconds of a SystemTime being an i64 (Unix)
checked_sub(time, duration) ==
    IF time - duration < I64_MIN THEN None ELSE Some(time - duration)

\* timestamp -> Option<SystemTime>, in a build with overflow checks (debug)
\* or without (release): the time returned and whether the negation panicked
git_time_to_system_time(timestamp, overflow_checks) ==
    IF timestamp >= 0
    THEN [ret |-> Some(UNIX_EPOCH + as_u64(timestamp)), panicked |-> FALSE]
    ELSE IF timestamp = I64_MIN /\ overflow_checks
    THEN [ret |-> None, panicked |-> TRUE]
    ELSE LET duration == as_u64(wrapping_neg(timestamp))
         IN [ret |-> checked_sub(UNIX_EPOCH, duration), panicked |-> FALSE]

get_git_line_modification_time(repo, answer, overflow_checks) ==
    IF ~repo THEN [ret |-> None, panicked |-> FALSE]
    ELSE IF answer.blame = None THEN [ret |-> None, panicked |-> FALSE]
    ELSE git_time_to_system_time(unwrap(answer.blame), overflow_checks)

\* The lookups below take their blame times from Times, which holds no time
\* before the epoch: the negation is not reached and both builds agree.

\* get_modification_time without the cache check: asks the backends every time
get_modification_time_uncached(cache, repo, result, answer) ==
    LET k == cache_key(result)
        git == get_git_line_modification_time(repo, answer, TRUE).ret
        mtime == IF git # None THEN unwrap(git)
                 ELSE IF answer.fs # None THEN unwrap(answer.fs)
                 ELSE UNIX_EPOCH
    IN [cache |-> Insert(cache, k, mtime), mtime |-> mtime, hit |-> FALSE]

\* get_modification_time trying the file's metadata before blame
get_modification_time_fs_first(cache, repo, result, answer) ==
    LET k == cache_key(result) IN
    IF k \in DOMAIN cache
    THEN [cache |-> cache, mtime |-> cache[k], hit |-> TRUE]
    ELSE LET git == get_git_line_modification_time(repo, answer, TRUE).ret
             mtime == IF answer.fs # None THEN unwrap(answer.fs)
                      ELSE IF git # None THEN unwrap(git)
                      ELSE UNIX_EPOCH
         IN [cache |-> Insert(cache, k, mtime), mtime |-> mtime, hit |-> FALSE]

\* get_modification_time that returns the time without memoizing it
get_modification_time_unmemoized(cache, repo, result, answer) ==
    LET k == cache_key(result) IN
    IF k \in DOMAIN cache
    THEN [cache |-> cache, mtime |-> cache[k], hit |-> TRUE]
    ELSE LET git == get_git_line_modification_time(repo, answer, TRUE).ret
             mtime == IF git # None THEN unwrap(git)
                      ELSE IF answer.fs # None THEN unwrap(answer.fs)
                      ELSE UNIX_EPOCH
         IN [cache |-> cache, mtime |-> mtime, hit |-> FALSE]

\* Returns the new cache, the time returned and whether it was a cache hit.
get_modification_time(cache, repo, result, answer) ==
    LET k == cache_key(result) IN
    IF k \in DOMAIN cache
    THEN [cache |-> cache, mtime |-> cache[k], hit |-> TRUE]
    ELSE LET git == get_git_line_modification_time(repo, answer, TRUE).ret
             mtime == IF git # None THEN unwrap(git)
                      ELSE IF answer.fs # None THEN unwrap(answer.fs)
                      ELSE UNIX_EPOCH
         IN [cache |-> Insert(cache, k, mtime), mtime |-> mtime, hit |-> FALSE]

\* ------------------------------------------------------- the Aggregator

compare_results(cache, a, b) ==
    IF cache_key(a) \notin DOMAIN cache \/ cache_key(b) \notin DOMAIN cache
    THEN "Panic"
    ELSE LET mtime_a == cache[cache_key(a)]
             mtime_b == cache[cache_key(b)]
         IN IF mtime_b < mtime_a THEN "Less"
            ELSE IF mtime_b = mtime_a THEN "Equal"
            ELSE "Greater"

\* results.sort_by(|a, b| self.compare_results(a, b)): a stable sort. The
\* element x goes behind every element of the sorted prefix that it is not
\* strictly Less than.
RECURSIVE InsertSorted(_, _, _)
InsertSorted(cache, sorted, x) ==
    IF sorted = <<>> THEN <<x>>
    ELSE LET last == sorted[Len(sorted)] IN
         IF compare_results(cache, x, last) = "Less"
         THEN Append(InsertSorted(cache, SubSeq(sorted, 1, Len(sorted) - 1), x), last)
         ELSE Append(sorted, x)

RECURSIVE SortPrefix(_, _, _)
SortPrefix(cache, results, n) ==
    IF n = 0 THEN <<>>
    ELSE InsertSorted(cache, SortPrefix(cache, results, n - 1), results[n])

\* sort_results leaving the batch as it came
sort_results_skipped(cache, results) ==
    [ok |-> TRUE, results |-> results]

\* A comparison is made only between two elements; it unwraps both keys.
sort_results(cache, results) ==
    IF Len(results) >= 2 /\ \E i \in DOMAIN results : cache_key(results[i]) \notin DOMAIN cache
    THEN [ok |-> FALSE, results |-> results]
    ELSE [ok |-> TRUE, results |-> SortPrefix(cache, results, Len(results))]

\* The first loop of merge_sorted_results and its two drain loops.
RECURSIVE MergeLoop(_, _, _, _, _, _)
MergeLoop(cache, global, sorted_batch, i, j, merged) ==
    IF i <= Len(global) /\ j <= Len(sorted_batch)
    THEN LET ord == compare_results(cache, global[i], sorted_batch[j]) IN
         IF ord = "Panic" THEN [ok |-> FALSE, merged |-> merged, moves |-> Len(merged)]
         ELSE IF ord = "Equal"
         THEN MergeLoop(cache, global, sorted_batch, i + 1, j, Append(merged, global[i]))
         ELSE MergeLoop(cache, global, sorted_batch, i, j + 1, Append(merged, sorted_batch[j]))
    ELSE IF i <= Len(global)
    THEN MergeLoop(cache, global, sorted_batch, i + 1, j, Append(merged, global[i]))
    ELSE IF j <= Len(sorted_batch)
    THEN MergeLoop(cache, global, sorted_batch, i, j + 1, Append(merged, sorted_batch[j]))
    ELSE [ok |-> TRUE, merged |-> merged, moves |-> Len(merged)]

\* The merge without the loop that drains the rest of the batch
RECURSIVE MergeLoopNoDrain(_, _, _, _, _, _)
MergeLoopNoDrain(cache, global, sorted_batch, i, j, merged) ==
    IF i <= Len(global) /\ j <= Len(sorted_batch)
    THEN LET ord == compare_results(cache, global[i], sorted_batch[j]) IN
         IF ord = "Panic" THEN [ok |-> FALSE, merged |-> merged, moves |-> Len(merged)]
         ELSE IF ord = "Equal"
         THEN MergeLoopNoDrain(cache, global, sorted_batch, i + 1, j, Append(merged, global[i]))
         ELSE MergeLoopNoDrain(cache, global, sorted_batch, i, j + 1, Append(merged, sorted_batch[j]))
    ELSE IF i <= Len(global)
    THEN MergeLoopNoDrain(cache, global, sorted_batch, i + 1, j, Append(merged, global[i]))
    ELSE [ok |-> TRUE, merged |-> merged, moves |-> Len(merged)]

merge_sorted_results_no_drain(cache, global, sorted_batch) ==
    MergeLoopNoDrain(cache, global, sorted_batch, 1, 1, <<>>)

merge_sorted_results(cache, global, sorted_batch) ==
    MergeLoop(cache, global, sorted_batch, 1, 1, <<>>)

\* The two merge routines of FileSorter; add_results calls the first, the
\* second has no caller
MergeRoutines == {"merge_sorted_results", "merge_sorted_results_mut"}

\* let mut merged = Vec::with_capacity(..); let mut i = 0; let mut j = 0;
MergeEntry(routine, sorted_batch) ==
    [routine |-> routine, sorted_batch |-> sorted_batch, i |-> 0, j |-> 0, merged |-> <<>>]

\* The loops of the routine have run to their end
MergeDone(global, call) ==
    /\ call.i >= Len(global)
    /\ call.routine = "merge_sorted_results" => call.j >= Len(call.sorted_batch)

\* MergeIteration with a merging loop that steps past the batch element too
\* when it takes the global one
MergeIterationBothCursors(cache, global, call) ==
    IF call.i < Len(global) /\ call.j < Len(call.sorted_batch)
    THEN LET ord == compare_results(cache, global[call.i + 1], call.sorted_batch[call.j + 1]) IN
         IF ord = "Panic" THEN [ok |-> FALSE, call |-> call]
         ELSE IF ord = "Equal"
         THEN [ok |-> TRUE,
               call |-> [call EXCEPT !.merged = Append(@, global[call.i + 1]), !.i = @ + 1,
                                     !.j = @ + 1]]
         ELSE [ok |-> TRUE,
               call |-> [call EXCEPT !.merged = Append(@, call.sorted_batch[call.j + 1]),
                                     !.j = @ + 1]]
    ELSE IF call.i < Len(global)
    THEN [ok |-> TRUE,
          call |-> [call EXCEPT !.merged = Append(@, global[call.i + 1]),
                                !.i = IF call.routine = "merge_sorted_results"
                                      THEN @ + 1 ELSE @]]
    ELSE [ok |-> TRUE,
          call |-> [call EXCEPT !.merged = Append(@, call.sorted_batch[call.j + 1]),
                                !.j = @ + 1]]

\* One iteration of the loop the routine is in: of the merging loop, of the
\* loop over the rest of the global order, or (merge_sorted_results only) of
\* the loop over the rest of the batch. The second loop of
\* merge_sorted_results_mut pushes without advancing i, and the routine has
\* no third loop.
MergeIteration(cache, global, call) ==
    IF call.i < Len(global) /\ call.j < Len(call.sorted_batch)
    THEN LET ord == compare_results(cache, global[call.i + 1], call.sorted_batch[call.j + 1]) IN
         IF ord = "Panic" THEN [ok |-> FALSE, call |-> call]
         ELSE IF ord = "Equal"
         THEN [ok |-> TRUE,
               call |-> [call EXCEPT !.merged = Append(@, global[call.i + 1]), !.i = @ + 1]]
         ELSE [ok |-> TRUE,
               call |-> [call EXCEPT !.merged = Append(@, call.sorted_batch[call.j + 1]),
                                     !.j = @ + 1]]
    ELSE IF call.i < Len(global)
    THEN [ok |-> TRUE,
          call |-> [call EXCEPT !.merged = Append(@, global[call.i + 1]),
                                !.i = IF call.routine = "merge_sorted_results"
                                      THEN @ + 1 ELSE @]]
    ELSE [ok |-> TRUE,
          call |-> [call EXCEPT !.merged = Append(@, call.sorted_batch[call.j + 1]),
                                !.j = @ + 1]]

\* The global order the routine leaves when it returns:
\* merge_sorted_results ends with self.global_results = merged,
\* merge_sorted_results_mut ends without it
MergeResult(global, call) ==
    IF call.routine = "merge_sorted_results" THEN call.merged ELSE global

\* for result in &new_results { self.get_modification_time(result); }
\* oracle gives the backends' answer for every key the loop has to ask for.
RECURSIVE Prepopulate(_, _, _, _, _)
Prepopulate(cache, repo, new_results, oracle, n) ==
    IF n = 0 THEN [cache |-> cache, lookups |-> <<>>]
    ELSE LET before == Prepopulate(cache, repo, new_results, oracle, n - 1)
             k == cache_key(new_results[n])
             answer == IF k \in DOMAIN oracle THEN oracle[k] ELSE [blame |-> None, fs |-> None]
             got == get_modification_time(before.cache, repo, new_results[n], answer)
         IN [cache |-> got.cache,
             lookups |-> Append(before.lookups,
                                [key |-> k, hit |-> got.hit, mtime |-> got.mtime,
                                 blame |-> IF got.hit THEN None ELSE answer.blame,
                                 fs |-> IF got.hit THEN None ELSE answer.fs])]

\* extend putting the batch in front
extend_in_front(global, new_results) == new_results \o global

\* extend that drops what the global order held
extend_replaces(global, new_results) == new_results

\* self.global_results.extend(new_results.clone())
extend(global, new_results) == global \o new_results

\* add_results that ranks the batch whether ranking is enabled or not
add_results_ranks_always(en, global, cache, repo, new_results, oracle) ==
    IF new_results = <<>>
    THEN [global_results |-> extend(global, new_results), metadata_cache |-> cache,
          ret |-> new_results, lookups |-> <<>>, panicked |-> FALSE]
    ELSE LET pre == Prepopulate(cache, repo, new_results, oracle, Len(new_results))
             sorted == sort_results(pre.cache, new_results)
         IN IF ~sorted.ok
            THEN [global_results |-> global, metadata_cache |-> pre.cache,
                  ret |-> <<>>, lookups |-> pre.lookups, panicked |-> TRUE]
            ELSE IF global = <<>>
            THEN [global_results |-> sorted.results, metadata_cache |-> pre.cache,
                  ret |-> sorted.results, lookups |-> pre.lookups, panicked |-> FALSE]
            ELSE LET m == merge_sorted_results(pre.cache, global, sorted.results) IN
                 IF ~m.ok
                 THEN [global_results |-> global, metadata_cache |-> pre.cache,
                       ret |-> <<>>, lookups |-> pre.lookups, panicked |-> TRUE]
                 ELSE [global_results |-> m.merged, metadata_cache |-> pre.cache,
                       ret |-> sorted.results, lookups |-> pre.lookups, panicked |-> FALSE]

\* FileSorter::add_results on the sorter (en, global, cache, repo); gives the
\* fields it leaves behind, the value returned and whether it panicked.
add_results(en, global, cache, repo, new_results, oracle) ==
    IF ~en \/ new_results = <<>>
    THEN [global_results |-> extend(global, new_results), metadata_cache |-> cache,
          ret |-> new_results, lookups |-> <<>>, panicked |-> FALSE]
    ELSE LET pre == Prepopulate(cache, repo, new_results, oracle, Len(new_results))
             sorted == sort_results(pre.cache, new_results)
         IN IF ~sorted.ok
            THEN [global_results |-> global, metadata_cache |-> pre.cache,
                  ret |-> <<>>, lookups |-> pre.lookups, panicked |-> TRUE]
            ELSE IF global = <<>>
            THEN [global_results |-> sorted.results, metadata_cache |-> pre.cache,
                  ret |-> sorted.results, lookups |-> pre.lookups, panicked |-> FALSE]
            ELSE LET m == merge_sorted_results(pre.cache, global, sorted.results) IN
                 IF ~m.ok
                 THEN [global_results |-> global, metadata_cache |-> pre.cache,
                       ret |-> <<>>, lookups |-> pre.lookups, panicked |-> TRUE]
                 ELSE [global_results |-> m.merged, metadata_cache |-> pre.cache,
                       ret |-> sorted.results, lookups |-> pre.lookups, panicked |-> FALSE]

\* clear that keeps the memoized times
clear_keeps_cache(global, cache) ==
    [global_results |-> <<>>, metadata_cache |-> cache]

\* FileSorter::clear on the sorter (global, cache)
clear(global, cache) ==
    [global_results |-> <<>>, metadata_cache |-> EmptyCache]

\* The keys of a batch that are not memoized: the ones the backends are asked for.
Missed(cache, new_results) ==
    {cache_key(new_results[i]) : i \in DOMAIN new_results} \ DOMAIN cache

\* ------------------------------------------------------ the session state

\* The sorter as a record, for the App methods that call into it
Sorter(global, cache) ==
    [global_results |-> global, metadata_cache |-> cache,
     ret |-> <<>>, lookups |-> <<>>, panicked |-> FALSE]

\* update_search_results without sorter.clear()
update_search_results_keeps_sorter(en, global, cache, repo, results, oracle) ==
    [search_results |-> results,
     selected_index |-> 0,
     sorter |-> IF results # <<>>
                THEN add_results(en, global, cache, repo, results, oracle)
                ELSE Sorter(global, cache)]

\* App::update_search_results: the fields it writes and the sorter it leaves
update_search_results(en, global, cache, repo, results, oracle) ==
    LET cleared == clear(global, cache) IN
    [search_results |-> results,
     selected_index |-> 0,
     sorter |-> IF results # <<>>
                THEN add_results(en, cleared.global_results, cleared.metadata_cache,
                                 repo, results, oracle)
                ELSE Sorter(cleared.global_results, cleared.metadata_cache)]

\* App::selected_result
selected_result(visible, index) ==
    IF index < Len(visible) THEN Some(visible[index + 1]) ELSE None

\* sync_results_from_sorter that shows the newest arrival first
sync_results_from_sorter_newest_first(global) ==
    [i \in 1..Len(global) |-> global[Len(global) + 1 - i]]

\* App::sync_results_from_sorter
sync_results_from_sorter(global) == global

\* App::add_sarch_results: the visible list and the sorter it leaves
add_sarch_results(visible, en, global, cache, repo, results, oracle) ==
    IF results = <<>>
    THEN [search_results |-> visible, sorter |-> Sorter(global, cache)]
    ELSE LET out == add_results(en, global, cache, repo, results, oracle) IN
         [search_results |-> IF out.panicked THEN visible
                             ELSE sync_results_from_sorter(out.global_results),
          sorter |-> out]

\* add_search_result without sync_results_from_sorter()
add_search_result_unsynced(visible, en, global, cache, repo, result, oracle) ==
    [search_results |-> visible,
     sorter |-> add_results(en, global, cache, repo, <<result>>, oracle)]

\* App::add_search_result
add_search_result(visible, en, global, cache, repo, result, oracle) ==
    LET out == add_results(en, global, cache, repo, <<result>>, oracle) IN
    [search_results |-> IF out.panicked THEN visible
                        ELSE sync_results_from_sorter(out.global_results),
     sorter |-> out]

\* SearchProgress::start_search
start_search(progress) ==
    [files_with_matches |-> 0, is_searching |-> TRUE, is_complete |-> FALSE]

\* SearchProgress::update_file_count
update_file_count(progress, file_with_matches) ==
    [progress EXCEPT !.files_with_matches = file_with_matches]

\* complete_search that leaves is_searching as it is
complete_search_keeps_searching(progress) ==
    [progress EXCEPT !.is_complete = TRUE]

\* SearchProgress::complete_search
complete_search(progress) ==
    [progress EXCEPT !.is_searching = FALSE, !.is_complete = TRUE]

\* SearchProgress::reset
reset(progress) ==
    [files_with_matches |-> 0, is_searching |-> FALSE, is_complete |-> FALSE]

\* toggle_focus that only ever moves to the results list
toggle_focus_to_results(focus) == "Results"

\* App::toggle_focus
toggle_focus(focus) ==
    IF focus = "Primary" THEN "Results" ELSE "Primary"

\* App::select_next: the index and the flag it leaves
select_next(visible, index, flag) ==
    IF visible # <<>> /\ index < Len(visible) - 1
    THEN [selected_index |-> index + 1, needs_progressive_load_check |-> TRUE]
    ELSE [selected_index |-> index, needs_progressive_load_check |-> flag]

\* select_previous that forgets to request the load check
select_previous_no_check(visible, index, flag) ==
    IF index > 0
    THEN [selected_index |-> index - 1, needs_progressive_load_check |-> flag]
    ELSE [selected_index |-> index, needs_progressive_load_check |-> flag]

\* App::select_previous
select_previous(visible, index, flag) ==
    IF index > 0
    THEN [selected_index |-> index - 1, needs_progressive_load_check |-> TRUE]
    ELSE [selected_index |-> index, needs_progressive_load_check |-> flag]

\* App::select_iindex
select_iindex(visible, current, index) ==
    IF index < Len(visible) THEN index ELSE current

\* App::handle_results_click: the index it leaves and the value it returns
handle_results_click(visible, index, click_row, results_area_top, results_area_height) ==
    IF click_row < results_area_top \/ click_row >= results_area_top + results_area_height
    THEN [selected_index |-> index, ret |-> FALSE]
    ELSE LET click_index == click_row - results_area_top IN
         IF click_index >= Len(visible)
         THEN [selected_index |-> click_index, ret |-> TRUE]
         ELSE [selected_index |-> index, ret |-> FALSE]

\* get_loading_message that looks at the search progress first
get_loading_message_progress_first(status, progress) ==
    IF progress.is_searching
    THEN <<"Searching... ", progress.files_with_matches, " files found">>
    ELSE IF status # None
    THEN IF unwrap(status).loading_complete
         THEN <<"Loaded ", unwrap(status).total_loaded, " results from ",
                unwrap(status).total_files_found, " files">>
         ELSE <<"Loading... ", unwrap(status).total_loaded, " results from ",
                unwrap(status).total_files_found, " files">>
    ELSE IF progress.is_complete
    THEN <<"Search complete - ", progress.files_with_matches, " files">>
    ELSE <<"Ready to search">>

\* App::get_loading_message; format! gives the literal pieces and the
\* numbers put between them
get_loading_message(status, progress) ==
    IF status # None
    THEN IF unwrap(status).loading_complete
         THEN <<"Loaded ", unwrap(status).total_loaded, " results from ",
                unwrap(status).total_files_found, " files">>
         ELSE <<"Loading... ", unwrap(status).total_loaded, " results from ",
                unwrap(status).total_files_found, " files">>
    ELSE IF progress.is_searching
    THEN <<"Searching... ", progress.files_with_matches, " files found">>
    ELSE IF progress.is_complete
    THEN <<"Search complete - ", progress.files_with_matches, " files">>
    ELSE <<"Ready to search">>

\* ------------------------------------------------------- the render cache

\* str::trim, on Contents
trim(content) == IF content = " x" THEN "x" ELSE content

\* SearchResult::format_for_tui_display: the text "{}:{} {}" handed to the
\* highlighter, which styles it by the extension of the display path
format_for_tui_display(result) ==
    <<result.display_path, ":", result.line_number, " ", trim(result.line_content)>>

\* The DefaultHasher digest of file_path, line_number and line_content, taken
\* as free of collisions
fingerprint(result) == <<result.file_path, result.line_number, result.line_content>>

Min(a, b) == IF a <= b THEN a ELSE b

\* cache.keys().take(cache_size_limit / 4): HashMap iterates in no fixed
\* order, so any keys of that number
keys_to_remove(cache, limit) ==
    {gone \in SUBSET (DOMAIN cache) :
        Cardinality(gone) = Min(limit \div 4, Cardinality(DOMAIN cache))}

\* The evictions a miss can make
Evictions(cache, limit) ==
    IF Cardinality(DOMAIN cache) >= limit THEN keys_to_remove(cache, limit) ELSE {{}}

Remove(cache, gone) == [k \in (DOMAIN cache) \ gone |-> cache[k]]

\* get_cached_highlighted_line that renders before it looks in the cache
get_cached_highlighted_line_renders_first(cache, limit, result, gone) ==
    IF fingerprint(result) \in DOMAIN cache
    THEN [highlighted_cache |-> cache, ret |-> cache[fingerprint(result)],
          rendered |-> {result}, evicted |-> {}]
    ELSE [highlighted_cache |->
              Insert(Remove(cache, gone), fingerprint(result), format_for_tui_display(result)),
          ret |-> format_for_tui_display(result),
          rendered |-> {result}, evicted |-> gone]

\* get_cached_highlighted_line that inserts first and evicts afterwards, the
\* new key among the keys taken
get_cached_highlighted_line_evicts_last(cache, limit, result, gone) ==
    IF fingerprint(result) \in DOMAIN cache
    THEN [highlighted_cache |-> cache, ret |-> cache[fingerprint(result)],
          rendered |-> {}, evicted |-> {}]
    ELSE LET inserted == Insert(cache, fingerprint(result), format_for_tui_display(result))
             taken == IF gone = {} THEN {}
                      ELSE (gone \ {CHOOSE k \in gone : TRUE}) \cup {fingerprint(result)}
         IN [highlighted_cache |-> Remove(inserted, taken),
             ret |-> format_for_tui_display(result),
             rendered |-> {result}, evicted |-> taken]

\* App::get_cached_highlighted_line, evicting the keys gone on a miss: the
\* cache it leaves, the line it returns, the results it ran the highlighter
\* on and the keys it removed
get_cached_highlighted_line(cache, limit, result, gone) ==
    IF fingerprint(result) \in DOMAIN cache
    THEN [highlighted_cache |-> cache, ret |-> cache[fingerprint(result)],
          rendered |-> {}, evicted |-> {}]
    ELSE [highlighted_cache |->
              Insert(Remove(cache, gone), fingerprint(result), format_for_tui_display(result)),
          ret |-> format_for_tui_display(result),
          rendered |-> {result}, evicted |-> gone]

\* clear_highlighting_cache that leaves the cache as it is
clear_highlighting_cache_skipped(cache) == cache

\* App::clear_highlighting_cache
clear_highlighting_cache(cache) == EmptyCache

\* --------------------------------------------------------------- actions

\* FileSorter::new(): Repository::open(".") succeeds or not.
FileSorterNew ==
    /\ enabled = FALSE
    /\ global_results = <<>>
    /\ metadata_cache = EmptyCache
    /\ git_repo \in BOOLEAN
    /\ panicked = FALSE
    /\ last_op = "new"
    /\ last_batch = <<>>
    /\ last_ret = <<>>
    /\ last_lookups = <<>>
    /\ arrived = <<>>
    /\ modes = {}
    /\ last_discarded = {}
    /\ merge_call = None

\* App::new(), but for the cache size limit
AppNew ==
    /\ search_results = <<>>
    /\ selected_index = 0
    /\ current_pattern = ""
    /\ should_quit = FALSE
    /\ input_focus = "Primary"
    /\ search_progress = SearchProgressNew
    /\ progressive_load_status = None
    /\ needs_progressive_load_check = FALSE
    /\ highlighted_cache = EmptyCache
    /\ last_rendered = {}
    /\ last_evicted = {}
    /\ superseded = FALSE
    /\ stale_merged = {}

\* App::new()
Init ==
    /\ FileSorterNew
    /\ AppNew
    /\ cache_size_limit = CACHE_SIZE_LIMIT

SetEnabled ==
    /\ ~panicked
    /\ \E e \in BOOLEAN : enabled' = e
    /\ last_op' = "set_enabled"
    /\ last_batch' = <<>>
    /\ last_ret' = <<>>
    /\ last_lookups' = <<>>
    /\ last_discarded' = {}
    /\ UNCHANGED merge_call
    /\ UNCHANGED <<global_results, metadata_cache, git_repo, panicked, arrived, modes>>
    /\ UNCHANGED appVars

Clear ==
    /\ ~panicked
    /\ global_results' = clear(global_results, metadata_cache).global_results
    /\ metadata_cache' = clear(global_results, metadata_cache).metadata_cache
    /\ last_op' = "clear"
    /\ last_batch' = <<>>
    /\ last_ret' = <<>>
    /\ last_lookups' = <<>>
    /\ arrived' = <<>>
    /\ modes' = {}
    /\ last_discarded' = DOMAIN metadata_cache
    /\ UNCHANGED merge_call
    /\ UNCHANGED <<enabled, git_repo, panicked>>
    /\ UNCHANGED appVars

AddResults ==
    /\ ~panicked
    /\ \E new_results \in Batches :
         /\ Len(global_results) + Len(new_results) <= MaxGlobal
         /\ \E oracle \in [IF enabled THEN Missed(metadata_cache, new_results) ELSE {} -> Answers] :
              LET out == add_results(enabled, global_results, metadata_cache, git_repo,
                                     new_results, oracle)
              IN /\ global_results' = out.global_results
                 /\ metadata_cache' = out.metadata_cache
                 /\ panicked' = out.panicked
                 /\ last_op' = "add_results"
                 /\ last_batch' = new_results
                 /\ last_ret' = out.ret
                 /\ last_lookups' = out.lookups
                 /\ arrived' = arrived \o new_results
                 /\ modes' = IF new_results = <<>> THEN modes ELSE modes \cup {enabled}
                 /\ last_discarded' = {}
                 /\ UNCHANGED merge_call
    /\ UNCHANGED <<enabled, git_repo>>
    /\ UNCHANGED appVars

Next == SetEnabled \/ Clear \/ AddResults

Spec == Init /\ [][Next]_vars

\* ------------------------------------------------- actions of the session

\* The answers the backends would give for the keys a batch misses
Oracles(cache, results) ==
    [IF enabled THEN Missed(cache, results) ELSE {} -> Answers]

\* The sorter after a call App made into it, which dropped the memoized
\* times of the keys discarded
SorterLeft(out, discarded) ==
    /\ global_results' = out.global_results
    /\ metadata_cache' = out.metadata_cache
    /\ panicked' = out.panicked
    /\ last_lookups' = out.lookups
    /\ last_discarded' = discarded
    /\ UNCHANGED merge_call
    /\ UNCHANGED <<enabled, git_repo>>

\* The call neither resets the session nor delivers a batch of an earlier
\* search
NoDelivery == UNCHANGED <<superseded, stale_merged>>

\* The call left the render cache alone
CacheKept == UNCHANGED <<highlighted_cache, cache_size_limit>> /\ last_rendered' = {} /\ last_evicted' = {}

\* The record of a call that takes no results and returns nothing
Called(op) == last_op' = op /\ last_batch' = <<>> /\ last_ret' = <<>>

UpdateSearchResults(results) ==
    /\ ~panicked
    /\ \E oracle \in Oracles(EmptyCache, results) :
         LET out == update_search_results(enabled, global_results, metadata_cache,
                                          git_repo, results, oracle)
         IN /\ search_results' = out.search_results
            /\ selected_index' = out.selected_index
            /\ SorterLeft(out.sorter, DOMAIN metadata_cache)
    /\ arrived' = results
    /\ modes' = IF results = <<>> THEN {} ELSE {enabled}
    /\ last_op' = "update_search_results"
    /\ last_batch' = results
    /\ last_ret' = <<>>
    /\ CacheKept
    /\ stale_merged' = {}
    /\ UNCHANGED superseded
    /\ UNCHANGED <<current_pattern, should_quit, input_focus, search_progress,
                   progressive_load_status, needs_progressive_load_check>>

AddSearchResult(result) ==
    /\ ~panicked
    /\ Len(global_results) < MaxVisible
    /\ \E oracle \in Oracles(metadata_cache, <<result>>) :
         LET out == add_search_result(search_results, enabled, global_results,
                                      metadata_cache, git_repo, result, oracle)
         IN /\ search_results' = out.search_results
            /\ SorterLeft(out.sorter, {})
    /\ arrived' = arrived \o <<result>>
    /\ modes' = modes \cup {enabled}
    /\ last_op' = "add_search_result"
    /\ last_batch' = <<result>>
    /\ last_ret' = <<>>
    /\ CacheKept
    /\ NoDelivery
    /\ UNCHANGED <<selected_index, current_pattern, should_quit, input_focus,
                   search_progress, progressive_load_status,
                   needs_progressive_load_check>>

\* App::add_sarch_results, called with a batch of the current search or
\* (stale) with one of a search the session was reset after
AddSarchResultsOf(results, stale) ==
    /\ ~panicked
    /\ Len(global_results) + Len(results) <= MaxVisible
    /\ \E oracle \in Oracles(metadata_cache, results) :
         LET out == add_sarch_results(search_results, enabled, global_results,
                                      metadata_cache, git_repo, results, oracle)
         IN /\ search_results' = out.search_results
            /\ SorterLeft(out.sorter, {})
    /\ arrived' = arrived \o results
    /\ modes' = IF results = <<>> THEN modes ELSE modes \cup {enabled}
    /\ last_op' = "add_sarch_results"
    /\ last_batch' = results
    /\ last_ret' = <<>>
    /\ CacheKept
    /\ stale_merged' =
          IF stale
          THEN stale_merged \cup
               {results[i] : i \in {n \in DOMAIN results :
                    Count(results[n], search_results') > Count(results[n], search_results)}}
          ELSE stale_merged
    /\ UNCHANGED superseded
    /\ UNCHANGED <<selected_index, current_pattern, should_quit, input_focus,
                   search_progress, progressive_load_status,
                   needs_progressive_load_check>>

AddSarchResults(results) == AddSarchResultsOf(results, FALSE)

\* The controller hands on a batch of the current search or, once a search
\* was superseded, one that the superseded search produced
DeliverBatch(results, stale) == (stale => superseded) /\ AddSarchResultsOf(results, stale)

\* App::clear_search_results, and start_new_search which goes on to
\* search_progress.start_search()
ClearSearchResultsThen(op, progress) ==
    /\ ~panicked
    /\ search_results' = <<>>
    /\ selected_index' = 0
    /\ SorterLeft(Sorter(clear(global_results, metadata_cache).global_results,
                         clear(global_results, metadata_cache).metadata_cache),
                  DOMAIN metadata_cache)
    /\ arrived' = <<>>
    /\ modes' = {}
    /\ highlighted_cache' = clear_highlighting_cache(highlighted_cache)
    /\ last_rendered' = {}
    /\ last_evicted' = (DOMAIN highlighted_cache) \ DOMAIN highlighted_cache'
    /\ search_progress' = progress
    /\ superseded' = (superseded \/ search_progress.is_searching)
    /\ stale_merged' = {}
    /\ Called(op)
    /\ UNCHANGED <<current_pattern, should_quit, input_focus, progressive_load_status,
                   needs_progressive_load_check, cache_size_limit>>

ClearSearchResults == ClearSearchResultsThen("clear_search_results", search_progress)

StartNewSearch == ClearSearchResultsThen("start_new_search", start_search(search_progress))

\* The calls that touch neither the sorter nor the render cache
SessionOnly(op) == ~panicked /\ Called(op) /\ CacheKept /\ NoDelivery /\ UNCHANGED sorterVars

UpdateFileCount(count) ==
    /\ SessionOnly("update_file_count")
    /\ search_progress' = update_file_count(search_progress, count)
    /\ UNCHANGED <<search_results, selected_index, current_pattern, should_quit,
                   input_focus, progressive_load_status, needs_progressive_load_check>>

\* The controller calls start_search on the public field search_progress
StartSearch ==
    /\ SessionOnly("start_search")
    /\ search_progress' = start_search(search_progress)
    /\ UNCHANGED <<search_results, selected_index, current_pattern, should_quit,
                   input_focus, progressive_load_status, needs_progressive_load_check>>

\* The controller calls reset on the public field search_progress
Reset ==
    /\ SessionOnly("reset")
    /\ search_progress' = reset(search_progress)
    /\ UNCHANGED <<search_results, selected_index, current_pattern, should_quit,
                   input_focus, progressive_load_status, needs_progressive_load_check>>

CompleteSearch ==
    /\ SessionOnly("complete_search")
    /\ search_progress' = complete_search(search_progress)
    /\ UNCHANGED <<search_results, selected_index, current_pattern, should_quit,
                   input_focus, progressive_load_status, needs_progressive_load_check>>

ToggleFocus ==
    /\ SessionOnly("toggle_focus")
    /\ input_focus' = toggle_focus(input_focus)
    /\ UNCHANGED <<search_results, selected_index, current_pattern, should_quit,
                   search_progress, progressive_load_status,
                   needs_progressive_load_check>>

Quit ==
    /\ SessionOnly("quit")
    /\ should_quit' = TRUE
    /\ UNCHANGED <<search_results, selected_index, current_pattern, input_focus,
                   search_progress, progressive_load_status,
                   needs_progressive_load_check>>

UpdatePattern(pattern) ==
    /\ SessionOnly("update_pattern")
    /\ current_pattern' = pattern
    /\ UNCHANGED <<search_results, selected_index, should_quit, input_focus,
                   search_progress, progressive_load_status,
                   needs_progressive_load_check>>

SelectNext ==
    /\ SessionOnly("select_next")
    /\ LET out == select_next(search_results, selected_index, needs_progressive_load_check)
       IN /\ selected_index' = out.selected_index
          /\ needs_progressive_load_check' = out.needs_progressive_load_check
    /\ UNCHANGED <<search_results, current_pattern, should_quit, input_focus,
                   search_progress, progressive_load_status>>

SelectPrevious ==
    /\ SessionOnly("select_previous")
    /\ LET out == select_previous(search_results, selected_index,
                                  needs_progressive_load_check)
       IN /\ selected_index' = out.selected_index
          /\ needs_progressive_load_check' = out.needs_progressive_load_check
    /\ UNCHANGED <<search_results, current_pattern, should_quit, input_focus,
                   search_progress, progressive_load_status>>

SelectIindex(index) ==
    /\ SessionOnly("select_iindex")
    /\ selected_index' = select_iindex(search_results, selected_index, index)
    /\ UNCHANGED <<search_results, current_pattern, should_quit, input_focus,
                   search_progress, progressive_load_status,
                   needs_progressive_load_check>>

HandleResultsClick(click_row, results_area_top, results_area_height) ==
    /\ ~panicked
    /\ LET out == handle_results_click(search_results, selected_index, click_row,
                                       results_area_top, results_area_height)
       IN /\ selected_index' = out.selected_index
          /\ last_ret' = out.ret
    /\ last_op' = "handle_results_click"
    /\ last_batch' = <<click_row, results_area_top, results_area_height>>
    /\ CacheKept
    /\ NoDelivery
    /\ UNCHANGED sorterVars
    /\ UNCHANGED <<search_results, current_pattern, should_quit, input_focus,
                   search_progress, progressive_load_status,
                   needs_progressive_load_check>>

\* The controller records the progress of an incremental load in the public
\* field progressive_load_status
ReportProgress(status) ==
    /\ SessionOnly("report_progress")
    /\ progressive_load_status' = Some(status)
    /\ UNCHANGED <<search_results, selected_index, current_pattern, should_quit,
                   input_focus, search_progress, needs_progressive_load_check>>

\* The controller polls the public field needs_progressive_load_check and
\* resets it
ResetLoadCheck ==
    /\ SessionOnly("reset_load_check")
    /\ needs_progressive_load_check
    /\ needs_progressive_load_check' = FALSE
    /\ UNCHANGED <<search_results, selected_index, current_pattern, should_quit,
                   input_focus, search_progress, progressive_load_status>>

GetCachedHighlightedLine(result) ==
    /\ ~panicked
    /\ \E gone \in Evictions(highlighted_cache, cache_size_limit) :
         LET out == get_cached_highlighted_line(highlighted_cache, cache_size_limit,
                                                result, gone)
         IN /\ highlighted_cache' = out.highlighted_cache
            /\ last_ret' = out.ret
            /\ last_rendered' = out.rendered
            /\ last_evicted' = out.evicted
    /\ last_op' = "get_cached_highlighted_line"
    /\ last_batch' = <<result>>
    /\ NoDelivery
    /\ UNCHANGED sorterVars
    /\ UNCHANGED <<search_results, selected_index, current_pattern, should_quit,
                   input_focus, search_progress, progressive_load_status,
                   needs_progressive_load_check, cache_size_limit>>

ClearHighlightingCache ==
    /\ ~panicked
    /\ highlighted_cache' = clear_highlighting_cache(highlighted_cache)
    /\ last_rendered' = {}
    /\ last_evicted' = (DOMAIN highlighted_cache) \ DOMAIN highlighted_cache'
    /\ Called("clear_highlighting_cache")
    /\ NoDelivery
    /\ UNCHANGED sorterVars
    /\ UNCHANGED <<search_results, selected_index, current_pattern, should_quit,
                   input_focus, search_progress, progressive_load_status,
                   needs_progressive_load_check, cache_size_limit>>

\* The session: the list, the selection and the focus, as the controller and
\* the key and mouse handlers drive them
SessionNext ==
    \/ \E results \in Visible : UpdateSearchResults(results)
    \/ \E result \in SessionResults : AddSearchResult(result)
    \/ \E results \in Visible : AddSarchResults(results)
    \/ ClearSearchResults
    \/ StartNewSearch
    \/ ToggleFocus
    \/ SelectNext
    \/ SelectPrevious
    \/ \E index \in Rows : SelectIindex(index)
    \/ \E click_row \in Rows, results_area_top \in Tops, results_area_height \in Rows :
          HandleResultsClick(click_row, results_area_top, results_area_height)
    \/ ResetLoadCheck

SessionSpec == Init /\ [][SessionNext]_vars

\* The status: the search progress, the progressive status, the pattern and
\* the quit flag, as the controller drives them
StatusNext ==
    \/ StartNewSearch
    \/ \E count \in Counts : UpdateFileCount(count)
    \/ CompleteSearch
    \/ StartSearch
    \/ Reset
    \/ \E status \in ProgressiveLoadStatus : ReportProgress(status)
    \/ \E pattern \in Patterns : UpdatePattern(pattern)
    \/ Quit

StatusSpec == Init /\ [][StatusNext]_vars

\* The delivery of batches: searches are started and reset while batches of
\* the current search, and of searches reset before, arrive
DeliveryNext ==
    \/ StartNewSearch
    \/ ClearSearchResults
    \/ CompleteSearch
    \/ \E result \in SessionResults : AddSearchResult(result)
    \/ \E results \in Visible, stale \in BOOLEAN : DeliverBatch(results, stale)

DeliverySpec == Init /\ [][DeliveryNext]_vars

\* SearchResult::new computes the display path of a path under a base
\* directory, once, when the result is made
ComputeDisplayPath(file_path, base_dir) ==
    /\ ~panicked
    /\ last_op = "new"
    /\ last_op' = "compute_display_path"
    /\ last_batch' = <<file_path, base_dir>>
    /\ last_ret' = compute_display_path(file_path, base_dir)
    /\ UNCHANGED <<sorterVars, appVars>>

DisplayPathNext ==
    \E file_path \in PathStrings, base_dir \in Option(BaseStrings) :
        ComputeDisplayPath(file_path, base_dir)

DisplayPathSpec == Init /\ [][DisplayPathNext]_vars

\* The blame step of one lookup, for a line whose commit carries the given
\* timestamp (or whose blame fails), in a build with or without overflow
\* checks
GetGitLineModificationTime(blame, overflow_checks) ==
    /\ ~panicked
    /\ last_op = "new"
    /\ LET out == get_git_line_modification_time(git_repo, [blame |-> blame, fs |-> None],
                                                 overflow_checks)
       IN /\ panicked' = out.panicked
          /\ last_ret' = out.ret
    /\ last_op' = "get_git_line_modification_time"
    /\ last_batch' = <<blame>>
    /\ UNCHANGED <<enabled, global_results, metadata_cache, git_repo,
                   last_lookups, arrived, modes, last_discarded, merge_call>>
    /\ UNCHANGED appVars

TimestampNext ==
    \E blame \in Option(I64), overflow_checks \in BOOLEAN :
        GetGitLineModificationTime(blame, overflow_checks)

TimestampSpec == Init /\ [][TimestampNext]_vars

\* The methods of FileSorter
SorterOps == {"set_enabled", "clear", "add_results"}

\* A client of the library drives a FileSorter of its own (sorter.rs:73-205)
\* or an App, whose sorter is a private field (app.rs:112): from the state
\* after construction a behaviour is one of the sorter or one of the session.
OwnSorter == last_op \in SorterOps \cup {"new"}

OwnApp == last_op \notin SorterOps

ClientNext ==
    \/ OwnSorter /\ SetEnabled
    \/ OwnSorter /\ Clear
    \/ OwnSorter /\ AddResults
    \/ OwnApp /\ \E results \in Visible : AddSarchResults(results)
    \/ OwnApp /\ StartNewSearch
    \/ OwnApp /\ ToggleFocus
    \/ OwnApp /\ SelectNext

ClientSpec == Init /\ [][ClientNext]_vars

\* The render cache under every limit of CacheLimits
CacheInit ==
    /\ FileSorterNew
    /\ AppNew
    /\ cache_size_limit \in CacheLimits

CacheNext ==
    \/ \E result \in CacheResults : GetCachedHighlightedLine(result)
    \/ ClearHighlightingCache
    \/ \E results \in CacheLists : UpdateSearchResults(results)
    \/ ClearSearchResults
    \/ StartNewSearch

CacheSpec == CacheInit /\ [][CacheNext]_vars

\* ------------------------------------------------ the merge, step by step

\* add_results up to the call of the merge routine: it returns at once
\* where the source does (pass-through, empty global order, a sort that
\* panics) and otherwise enters the routine.
CallAddResults(routine) ==
    /\ ~panicked
    /\ merge_call = None
    /\ \E new_results \in Batches :
         /\ Len(global_results) + Len(new_results) <= MaxGlobal
         /\ Len(arrived) + Len(new_results) <= MaxGlobal
         /\ \E oracle \in [IF enabled THEN Missed(metadata_cache, new_results) ELSE {} -> Answers] :
              LET out == add_results(enabled, global_results, metadata_cache, git_repo,
                                     new_results, oracle)
                  pre == Prepopulate(metadata_cache, git_repo, new_results, oracle,
                                     Len(new_results))
                  sorted == sort_results(pre.cache, new_results)
              IN IF ~enabled \/ new_results = <<>> \/ global_results = <<>> \/ ~sorted.ok
                 THEN /\ global_results' = out.global_results
                      /\ metadata_cache' = out.metadata_cache
                      /\ panicked' = out.panicked
                      /\ last_ret' = out.ret
                      /\ last_lookups' = out.lookups
                      /\ merge_call' = None
                 ELSE /\ global_results' = global_results
                      /\ metadata_cache' = pre.cache
                      /\ panicked' = FALSE
                      /\ last_ret' = <<>>
                      /\ last_lookups' = pre.lookups
                      /\ merge_call' = Some(MergeEntry(routine, sorted.results))
         /\ last_batch' = new_results
         /\ arrived' = arrived \o new_results
         /\ modes' = IF new_results = <<>> THEN modes ELSE modes \cup {enabled}
    /\ last_op' = "add_results"
    /\ last_discarded' = {}
    /\ UNCHANGED <<enabled, git_repo>>
    /\ UNCHANGED appVars

\* One iteration of the running routine; a comparison that panics unwinds
\* the call. (A routine that goes on pushing is followed for MaxMoves moves.)
MergeIterate ==
    /\ merge_call # None
    /\ ~MergeDone(global_results, unwrap(merge_call))
    /\ Len(unwrap(merge_call).merged) < MaxMoves
    /\ LET step == MergeIteration(metadata_cache, global_results, unwrap(merge_call))
       IN /\ merge_call' = IF step.ok THEN Some(step.call) ELSE None
          /\ panicked' = ~step.ok
    /\ UNCHANGED <<enabled, global_results, metadata_cache, git_repo, last_lookups,
                   arrived, modes, last_discarded>>
    /\ UNCHANGED <<last_op, last_batch, last_ret>>
    /\ UNCHANGED appVars

\* The routine returns and add_results returns the sorted batch
MergeReturn ==
    /\ merge_call # None
    /\ MergeDone(global_results, unwrap(merge_call))
    /\ global_results' = MergeResult(global_results, unwrap(merge_call))
    /\ last_ret' = unwrap(merge_call).sorted_batch
    /\ merge_call' = None
    /\ UNCHANGED <<enabled, metadata_cache, git_repo, panicked, last_lookups,
                   arrived, modes, last_discarded>>
    /\ UNCHANGED <<last_op, last_batch>>
    /\ UNCHANGED appVars

\* The sorter with add_results taken step by step
MergeNext ==
    \/ merge_call = None /\ SetEnabled
    \/ CallAddResults("merge_sorted_results")
    \/ MergeIterate
    \/ MergeReturn

MergeSpec == Init /\ [][MergeNext]_vars

\* The same with merge_sorted_results_mut called in the place of
\* merge_sorted_results
MergeMutNext ==
    \/ merge_call = None /\ SetEnabled
    \/ CallAddResults("merge_sorted_results_mut")
    \/ MergeIterate
    \/ MergeReturn

MergeMutSpec == Init /\ [][MergeMutNext]_vars

\* ------------------------------------------------------ the command line

\* What the file system holds at the path of --directory
DirectoryStates == {"missing", "file", "directory"}

\* Search patterns as typed: strings of blanks and letters
PatternStrings == SeqsUpTo({" ", "p"}, MaxPatternLen)

\* struct Cli (debug is read by neither operation below)
Cli ==
    [pattern : PatternStrings, exact : BOOLEAN, ignore_case : BOOLEAN,
     substring : BOOLEAN, directory : Option(DirectoryStates)]

\* modes.iter().filter(|&&x| x).count()
mode_count(cli) ==
    (IF cli.exact THEN 1 ELSE 0) + (IF cli.ignore_case THEN 1 ELSE 0)
       + (IF cli.substring THEN 1 ELSE 0)

\* self.pattern.trim().is_empty()
trim_is_empty(pattern) == \A i \in DOMAIN pattern : pattern[i] = " "

\* Cli::validate
validate(cli) ==
    IF mode_count(cli) > 1 THEN FALSE
    ELSE IF cli.directory # None /\ unwrap(cli.directory) = "missing" THEN FALSE
    ELSE IF cli.directory # None /\ unwrap(cli.directory) # "directory" THEN FALSE
    ELSE IF trim_is_empty(cli.pattern) THEN FALSE
    ELSE TRUE

\* Cli::search_mode: a SearchMode
search_mode(cli) ==
    IF cli.exact /\ ~cli.ignore_case /\ ~cli.substring THEN "SearchMode::Exact"
    ELSE IF ~cli.exact /\ cli.ignore_case /\ ~cli.substring THEN "SearchMode::IgnoreCase"
    ELSE IF ~cli.exact /\ ~cli.ignore_case /\ cli.substring THEN "SearchMode::Substring"
    ELSE "SearchMode::Exact"

\* SearchEngine::from_cli_with_config: the mode of the engine it returns
\* (a SearchEngineMode; the call never fails)
from_cli_with_config(cli) ==
    IF cli.exact THEN "SearchEngineMode::Exact"
    ELSE IF cli.ignore_case THEN "SearchEngineMode::CaseInsensitive"
    ELSE IF cli.substring THEN "SearchEngineMode::Substring"
    ELSE "SearchEngineMode::CaseInsensitive"

\* SearchEngine::from_cli
from_cli(cli) == from_cli_with_config(cli)

\* The program parses its arguments once, validates them and derives the
\* search mode both ways
ParseArgs(cli) ==
    /\ ~panicked
    /\ last_op = "new"
    /\ last_op' = "parse_args"
    /\ last_batch' = <<cli>>
    /\ last_ret' = [validate |-> validate(cli), search_mode |-> search_mode(cli),
                    from_cli |-> from_cli(cli)]
    /\ UNCHANGED <<sorterVars, appVars>>

CliNext == \E cli \in Cli : ParseArgs(cli)

CliSpec == Init /\ [][CliNext]_vars

\* ----------------------------------------------------------- properties

KeysIn(results) == {cache_key(results[i]) : i \in DOMAIN results}

\* The same elements, each as often
IsPermutation(s, t) == \A x \in SearchResult : Count(x, s) = Count(x, t)

\* No element is followed by one with a strictly later memoized time.
SortedDescending(cache, results) ==
    /\ KeysIn(results) \subseteq DOMAIN cache
    /\ \A i \in 1..(Len(results) - 1) :
         cache[cache_key(results[i])] >= cache[cache_key(results[i + 1])]

\* Every batch since new()/clear() was added with ranking enabled.
KeptEnabled == modes \subseteq {TRUE}

\* Every batch since new()/clear() was added with ranking disabled.
KeptDisabled == modes \subseteq {FALSE}

\* The last call was an add_results that returned.
Added == last_op = "add_results" /\ ~panicked

\* C1: with ranking enabled for every batch, the global order is sorted
\* descending by recency key after any sequence of add_results calls.
C1_GlobalSortedDescending ==
    (KeptEnabled /\ ~panicked) => SortedDescending(metadata_cache, global_results)

\* C2: every add_results call that returns, in either mode, leaves a global
\* order that is a permutation of the global order before plus the batch:
\* its length grows by the batch length, nothing is dropped or duplicated.
C2_AddConservesElements ==
    [][(last_op' = "add_results" /\ ~panicked') =>
         /\ IsPermutation(global_results', global_results \o last_batch')
         /\ Len(global_results') = Len(global_results) + Len(last_batch')]_vars

\* A ranked merge of a two-element batch into a non-empty global order.
C2_Witness ==
    /\ Added /\ enabled
    /\ Len(last_batch) = 2 /\ Len(global_results) = 3
    /\ last_batch[1] # last_batch[2]

\* The oracle that answers every key with the time memoized in cache
SameAnswers(cache) ==
    [k \in DOMAIN cache |-> [blame |-> None, fs |-> Some(cache[k])]]

\* The global order of a fresh enabled sorter after add_results(first) and
\* then add_results(second), with the given oracle answers.
AddBoth(first, second, oracle) ==
    LET one == add_results(TRUE, <<>>, EmptyCache, git_repo, first, oracle)
    IN add_results(TRUE, one.global_results, one.metadata_cache, git_repo,
                   second, oracle).global_results

\* Two different results never share a memoized time.
NoTies(cache, results) ==
    \A i, j \in DOMAIN results :
        results[i] # results[j] => cache[cache_key(results[i])] # cache[cache_key(results[j])]

\* C3: from an empty enabled sorter, add_results(A); add_results(B) leaves
\* the global order that add_results(B); add_results(A) leaves, the oracle
\* answering alike in both runs. (Stated for batches without ties between
\* different results: among tied results encounter order decides, which
\* depends on the arrival order under any stable merge.)
C3_OrderIndependent ==
    [][(/\ enabled /\ last_op = "add_results" /\ ~panicked
        /\ KeptEnabled /\ arrived = last_batch
        /\ last_op' = "add_results" /\ ~panicked'
        /\ NoTies(metadata_cache', arrived'))
       => global_results' = AddBoth(last_batch', last_batch, SameAnswers(metadata_cache'))]_vars

\* C4: with ranking enabled, a single-result batch whose recency key lies
\* strictly between the keys of two adjacent elements of the sorted global
\* order is placed between them (t(r1) > t(r3) > t(r2): [r1, r2] then [r3]
\* gives [r1, r3, r2]).
C4_SingleResultPlacedBetween ==
    [][(/\ enabled /\ KeptEnabled /\ ~panicked
        /\ SortedDescending(metadata_cache, global_results)
        /\ last_op' = "add_results" /\ ~panicked'
        /\ Len(last_batch') = 1)
       => \A i \in 1..(Len(global_results) - 1) :
            LET t(r) == metadata_cache'[cache_key(r)]
                r3 == last_batch'[1]
            IN (t(global_results[i]) > t(r3) /\ t(r3) > t(global_results[i + 1]))
               => global_results' = SubSeq(global_results, 1, i) \o <<r3>>
                                    \o SubSeq(global_results, i + 1, Len(global_results))]_vars

\* C5: while ranking is disabled, the global order is the concatenation of
\* the batches in arrival order, each in its given order.
C5_DisabledIsConcatenation ==
    KeptDisabled => global_results = arrived

\* Three results appended in pass-through mode, in at least two batches.
C5_Witness ==
    /\ Added /\ modes = {FALSE}
    /\ Len(last_batch) = 1 /\ Len(global_results) = 3
    /\ global_results[1] # global_results[2]

\* C6: add_results returns the elements of the batch and nothing else:
\* sorted descending by recency key when ranking is enabled, in the given
\* order when ranking is disabled or the batch is empty.
C6_ReturnsTheBatch ==
    Added =>
      /\ IsPermutation(last_ret, last_batch)
      /\ Len(last_ret) = Len(last_batch)
      /\ (enabled /\ last_batch # <<>>) => SortedDescending(metadata_cache, last_ret)
      /\ (~enabled \/ last_batch = <<>>) => last_ret = last_batch

\* A ranked call that reordered its batch and merged it into older results.
C6_Witness ==
    /\ Added /\ enabled
    /\ Len(last_batch) = 2 /\ last_ret # last_batch
    /\ Len(global_results) = 3

\* C7: no add_results call aborts, whatever set_enabled, add_results and
\* clear calls came before it.
C7_AddNeverAborts == ~panicked

\* Lookup i of a call is the first one of its key in that call.
FirstOfKey(lookups, i) == \A j \in 1..(i - 1) : lookups[j].key # lookups[i].key

\* C8: between two clear() calls a memoized key keeps its time: every
\* lookup of it returns that time, whatever the backends would answer now,
\* and two lookups of one key in one call return the same time.
C8_MemoizedKeyKeepsItsTime ==
    [][last_op' # "clear" =>
         /\ \A k \in DOMAIN metadata_cache :
              /\ k \in DOMAIN metadata_cache'
              /\ metadata_cache'[k] = metadata_cache[k]
              /\ \A i \in DOMAIN last_lookups' :
                   last_lookups'[i].key = k => last_lookups'[i].mtime = metadata_cache[k]
         /\ \A i, j \in DOMAIN last_lookups' :
              last_lookups'[i].key = last_lookups'[j].key
                => last_lookups'[i].mtime = last_lookups'[j].mtime]_vars

\* A call found a key memoized by an earlier call, at a time after the epoch.
C8_Witness ==
    /\ Added /\ Len(arrived) > Len(last_batch)
    /\ \E i \in DOMAIN last_lookups :
         /\ last_lookups[i].hit
         /\ FirstOfKey(last_lookups, i)
         /\ last_lookups[i].mtime > UNIX_EPOCH

C10_ClearDropsMemo ==
    [][/\ last_op' = "clear" =>
            /\ global_results' = <<>>
            /\ metadata_cache' = EmptyCache
       /\ (last_op = "clear" /\ last_op' = "add_results") =>
            \A i \in DOMAIN last_lookups' :
               LET l == last_lookups'[i] IN
               FirstOfKey(last_lookups', i) =>
                  /\ ~l.hit
                  /\ l.mtime = IF git_repo /\ l.blame # None THEN unwrap(l.blame)
                               ELSE IF l.fs # None THEN unwrap(l.fs)
                               ELSE UNIX_EPOCH]_vars

\* clear() has just dropped memoized keys of an enabled sorter.
C10_Witness ==
    /\ last_op = "clear" /\ enabled
    /\ Cardinality(last_discarded) >= 2
    /\ global_results = <<>> /\ metadata_cache = EmptyCache

\* ------------------------------------------ properties of the session

\* The two sequences hold the same results, each as often
SameElements(s, t) == \A x \in ShownResult : Count(x, s) = Count(x, t)

\* The App methods that change the result list
ListOps ==
    {"update_search_results", "add_search_result", "add_sarch_results",
     "clear_search_results", "start_new_search"}

\* C11: after update_search_results(results) the selection is at index 0 and
\* the aggregator holds exactly the elements of results, each as often as
\* results does, and nothing it held before the call.
C11_ReplaceResetsAndRepopulates ==
    last_op = "update_search_results" =>
        /\ selected_index = 0
        /\ SameElements(global_results, last_batch)

\* A list of two results replaces an earlier one on which the selection had moved
C11_Witness ==
    /\ last_op = "update_search_results"
    /\ Len(last_batch) >= 2
    /\ needs_progressive_load_check

\* C12: after update_search_results the render cache is empty.
C12_ReplaceClearsRenderCache ==
    last_op = "update_search_results" => highlighted_cache = EmptyCache

\* C13: after each of update_search_results, add_search_result,
\* add_sarch_results, clear_search_results and start_new_search, the visible
\* list search_results is the aggregator's global order.
C13_VisibleMirrorsGlobalOrder ==
    last_op \in ListOps => search_results = global_results

\* A single result was appended to a list that already held one
C13_Witness ==
    /\ last_op = "add_search_result"
    /\ Len(search_results) >= 2
    /\ search_results[1] # search_results[2]

\* The step is a call of select_next or select_previous
Moves == last_op' \in {"select_next", "select_previous"}

\* C14: select_next and select_previous leave selected_index within
\* [0, len-1] when the list is not empty, and on an empty list change neither
\* selected_index nor the load-check flag.
C14_SelectionStaysInRange ==
    [][Moves =>
        IF search_results = <<>>
        THEN /\ selected_index' = selected_index
             /\ needs_progressive_load_check' = needs_progressive_load_check
        ELSE selected_index' \in 0..(Len(search_results) - 1)]_vars

\* C15: a select_next or select_previous that moves the selection sets
\* needs_progressive_load_check, and once set the flag is cleared by nothing
\* but the controller's reset.
C15_MoveRequestsLoadCheck ==
    [][/\ Moves /\ selected_index' # selected_index => needs_progressive_load_check'
       /\ needs_progressive_load_check /\ ~needs_progressive_load_check'
              => last_op' = "reset_load_check"]_vars

\* The selection moved back to the first result, and the request outlived a
\* later streaming addition
C15_Witness ==
    /\ last_op = "add_search_result"
    /\ needs_progressive_load_check
    /\ selected_index = 0

\* C16: toggle_focus switches input_focus between Primary and Results,
\* changes no other field, and a second toggle restores the focus.
C16_ToggleFocusOnlyFlipsFocus ==
    [][last_op' = "toggle_focus" =>
        /\ input_focus' \in {"Primary", "Results"} \ {input_focus}
        /\ toggle_focus(input_focus') = input_focus
        /\ UNCHANGED <<search_results, selected_index, current_pattern, should_quit,
                       search_progress, progressive_load_status,
                       needs_progressive_load_check, highlighted_cache,
                       cache_size_limit, enabled, global_results, metadata_cache,
                       git_repo>>]_vars

\* The focus is back on the primary input while a later result is selected
C16_Witness ==
    /\ last_op = "toggle_focus"
    /\ input_focus = "Primary"
    /\ selected_index > 0
    /\ needs_progressive_load_check

\* C17: the status message comes from the progressive status alone when one
\* is present (Loaded when the load is complete, Loading otherwise); else
\* from the search progress (Searching while it runs, else Search complete
\* when it is complete); else it is "Ready to search".
C17_StatusPrecedence ==
    LET message == get_loading_message(progressive_load_status, search_progress)
        status == unwrap(progressive_load_status)
    IN IF progressive_load_status # None
       THEN message = <<IF status.loading_complete THEN "Loaded " ELSE "Loading... ",
                        status.total_loaded, " results from ",
                        status.total_files_found, " files">>
       ELSE /\ search_progress.is_searching
                => message = <<"Searching... ", search_progress.files_with_matches,
                               " files found">>
            /\ ~search_progress.is_searching /\ search_progress.is_complete
                => message = <<"Search complete - ", search_progress.files_with_matches,
                               " files">>
            /\ ~search_progress.is_searching /\ ~search_progress.is_complete
                => message = <<"Ready to search">>

\* A progressive status is present while the search progress says searching
C17_Witness ==
    /\ progressive_load_status # None
    /\ search_progress.is_searching
    /\ search_progress.files_with_matches > 0

\* ------------------------------------- properties of the render cache

\* The step is a call of get_cached_highlighted_line that finds the key
Hit ==
    /\ last_op' = "get_cached_highlighted_line"
    /\ fingerprint(last_batch'[1]) \in DOMAIN highlighted_cache

\* The step is a call of get_cached_highlighted_line that does not find the
\* key while the cache holds cache_size_limit entries or more
FullMiss ==
    /\ last_op' = "get_cached_highlighted_line"
    /\ fingerprint(last_batch'[1]) \notin DOMAIN highlighted_cache
    /\ Cardinality(DOMAIN highlighted_cache) >= cache_size_limit

\* C18: on a hit get_cached_highlighted_line returns the stored line, does
\* not run the render function and leaves the cache as it was.
C18_HitReturnsStoredLine ==
    [][Hit =>
        /\ last_ret' = highlighted_cache[fingerprint(last_batch'[1])]
        /\ last_rendered' = {}
        /\ highlighted_cache' = highlighted_cache]_vars

\* A hit returned a stored line that rendering the result anew would not give
C18_Witness ==
    /\ last_op = "get_cached_highlighted_line"
    /\ last_rendered = {}
    /\ last_ret # format_for_tui_display(last_batch[1])

Gets == last_op' = "get_cached_highlighted_line"

\* C21: after a miss of get_cached_highlighted_line, with or without an
\* eviction, the fingerprint of the result just rendered is in the cache, and
\* a call for the same result that follows at once is a hit.
C21_RenderedLineIsCached ==
    [][/\ Gets /\ last_rendered' # {}
            => fingerprint(last_batch'[1]) \in DOMAIN highlighted_cache'
       /\ Gets /\ last_op = "get_cached_highlighted_line" /\ last_rendered # {}
               /\ last_batch' = last_batch
            => last_rendered' = {} /\ last_ret' = last_ret]_vars

\* A miss evicted lines to make room and then stored the line it rendered
C21_Witness ==
    /\ last_op = "get_cached_highlighted_line"
    /\ last_rendered # {}
    /\ last_evicted # {}
    /\ fingerprint(last_batch[1]) \in DOMAIN highlighted_cache

\* The App methods that reset the session for a new pattern
ResetOps == {"clear_search_results", "start_new_search"}

\* C22: after clear_search_results, and after start_new_search, the render
\* cache is empty, the visible list is empty, selected_index is 0 and the
\* aggregator holds no result and no memoized time.
C22_ResetEmptiesSession ==
    last_op \in ResetOps =>
        /\ highlighted_cache = EmptyCache
        /\ search_results = <<>>
        /\ selected_index = 0
        /\ global_results = <<>>
        /\ metadata_cache = EmptyCache

\* A new search was started while rendered lines were cached
C22_Witness ==
    /\ last_op = "start_new_search"
    /\ Cardinality(last_evicted) >= 2

\* C23: a batch produced for a search that the session was reset after
\* (clear_search_results / start_new_search) is rejected when it is delivered:
\* none of its results is merged into the aggregator or shown in the list of
\* the new search.
C23_StaleBatchRejected ==
    \A r \in stale_merged :
        /\ \A i \in DOMAIN global_results : global_results[i] # r
        /\ \A i \in DOMAIN search_results : search_results[i] # r

\* ------------------------------------------ properties of the display path

\* The strings that s ends with
Suffixes(s) == {SubSeq(s, i, Len(s)) : i \in 1..(Len(s) + 1)}

\* s with one leading "./" taken off, if it has one
WithoutDotSlash(s) ==
    IF \E rest \in Suffixes(s) : s = <<".", "/">> \o rest
    THEN CHOOSE rest \in Suffixes(s) : s = <<".", "/">> \o rest
    ELSE s

\* s with one leading "/" taken off, if it has one
WithoutSlash(s) == IF s # <<>> /\ Head(s) = "/" THEN Tail(s) ELSE s

\* C24: compute_display_path(path, base) is defined for every path and base
\* directory; it strips one leading "./" from the path; if the base directory
\* is a prefix of the stripped path it gives the remainder, less a leading
\* "/"; otherwise it gives the stripped path unchanged.
C24_DisplayPath ==
    last_op = "compute_display_path" =>
        LET path == last_batch[1]
            base == last_batch[2]
            stripped == WithoutDotSlash(path)
        IN IF base # None /\ \E rest \in Suffixes(stripped) : stripped = unwrap(base) \o rest
           THEN \E rest \in Suffixes(stripped) :
                   /\ stripped = unwrap(base) \o rest
                   /\ last_ret = WithoutSlash(rest)
           ELSE last_ret = stripped

\* ("./a/a", "a") gives "a", as ("./src/main.rs", "src") gives "main.rs"
C24_Witness ==
    /\ last_op = "compute_display_path"
    /\ last_batch = <<(<<".", "/", "a", "/", "a">>), Some(<<"a">>)>>
    /\ last_ret = <<"a">>

\* The App methods that stream results in
StreamOps == {"add_search_result", "add_sarch_results"}

\* C25: after add_search_result / add_sarch_results on an App made by
\* App::new, search_results is ordered most recently modified first. The App
\* never asks the backends, so its behaviour is the same whatever times the
\* files have (world); the list has to be in order for each of them.
C25_StreamedListSorted ==
    last_op \in StreamOps =>
        \A world \in [KeysIn(search_results) -> Times] :
            SortedDescending(world, search_results)

\* C26: handle_results_click(row, top, height) sets selected_index to
\* row - top and returns true exactly when row lies in [top, top + height)
\* and row - top is the index of an existing result; otherwise it returns
\* false and leaves selected_index as it was.
C26_ClickSelectsExistingRow ==
    [][last_op' = "handle_results_click" =>
          LET click_row == last_batch'[1]
              results_area_top == last_batch'[2]
              results_area_height == last_batch'[3]
              on_result == /\ click_row >= results_area_top
                           /\ click_row < results_area_top + results_area_height
                           /\ click_row - results_area_top < Len(search_results)
          IN /\ last_ret' = on_result
             /\ selected_index' = IF on_result THEN click_row - results_area_top
                                   ELSE selected_index]_vars

\* The results whose memoized time is t, in the order they have in results
WithTime(cache, t, results) ==
    LET at_t(r) == cache[cache_key(r)] = t
    IN SelectSeq(results, at_t)

\* C27: with ranking enabled, results with equal recency keys keep their
\* encounter order: the sort of a batch is stable, and the merge places an
\* already-present element before every batch element that ties with it
\* (the already-present elements among themselves keep their order too).
C27_TiesKeepEncounterOrder ==
    [][(/\ enabled /\ KeptEnabled /\ ~panicked
        /\ SortedDescending(metadata_cache, global_results)
        /\ last_op' = "add_results" /\ ~panicked')
       => \A t \in Times :
            /\ WithTime(metadata_cache', t, last_ret')
                   = WithTime(metadata_cache', t, last_batch')
            /\ WithTime(metadata_cache', t, global_results')
                   = WithTime(metadata_cache', t, global_results)
                        \o WithTime(metadata_cache', t, last_ret')]_vars

\* C28: with ranking enabled, add_results looks up the recency key of every
\* result of the batch, in batch order, before it sorts and merges, so every
\* key of the batch is memoized when the call ends; and between two clear()
\* calls the backends are asked at most once for a (path, line) key: only
\* for a key that is not memoized and not asked for earlier in the call, and
\* a memoized key stays memoized until clear().
C28_MemoizedOnceBeforeSort ==
    [][/\ (enabled /\ last_op' = "add_results" /\ last_batch' # <<>>) =>
            /\ Len(last_lookups') = Len(last_batch')
            /\ \A i \in DOMAIN last_batch' :
                  last_lookups'[i].key = cache_key(last_batch'[i])
            /\ KeysIn(last_batch') \subseteq DOMAIN metadata_cache'
            /\ \A i \in DOMAIN last_lookups' :
                  ~last_lookups'[i].hit <=>
                     /\ last_lookups'[i].key \notin DOMAIN metadata_cache
                     /\ FirstOfKey(last_lookups', i)
       /\ last_op' # "clear" => DOMAIN metadata_cache \subseteq DOMAIN metadata_cache']_vars

\* A ranked call whose batch names one new key twice: asked for once, then
\* found memoized, next to keys an earlier call memoized.
C28_Witness ==
    /\ Added /\ enabled
    /\ Len(last_batch) = 2 /\ Len(arrived) > 2
    /\ last_lookups[1].key = last_lookups[2].key
    /\ ~last_lookups[1].hit /\ last_lookups[2].hit

\* C29: an empty batch is a no-op in both modes. FileSorter::add_results([])
\* leaves the global order and the memo cache as they were and returns the
\* empty list; App::add_sarch_results([]) leaves the whole session state,
\* the aggregator included, as it was.
C29_EmptyBatchIsNoOp ==
    [][/\ (last_op' = "add_results" /\ last_batch' = <<>>) =>
            /\ ~panicked'
            /\ last_ret' = <<>>
            /\ last_lookups' = <<>>
            /\ UNCHANGED <<enabled, global_results, metadata_cache, git_repo>>
       /\ (last_op' = "add_sarch_results" /\ last_batch' = <<>>) =>
            /\ ~panicked'
            /\ UNCHANGED <<enabled, global_results, metadata_cache, git_repo>>
            /\ UNCHANGED <<search_results, selected_index, current_pattern,
                           should_quit, input_focus, search_progress,
                           progressive_load_status, needs_progressive_load_check,
                           highlighted_cache, cache_size_limit>>]_vars

\* add_results([]) has returned on an enabled sorter that holds ranked
\* results and their memoized times.
C29_Witness ==
    /\ Added /\ enabled /\ last_batch = <<>>
    /\ Len(global_results) >= 2
    /\ Cardinality(DOMAIN metadata_cache) >= 2

\* C30: for every negative commit timestamp t that an i64 holds, the blame
\* step yields the time |t| seconds before the epoch, computed without
\* integer overflow, and does not discard the timestamp (which would let
\* the lookup fall through to the file's metadata).
C30_NegativeTimestampKept ==
    (/\ last_op = "get_git_line_modification_time"
     /\ git_repo
     /\ last_batch[1] # None
     /\ unwrap(last_batch[1]) < 0)
    => /\ ~panicked
       /\ last_ret = Some(UNIX_EPOCH - (0 - unwrap(last_batch[1])))

\* ------------------------------------------ properties of the command line

\* The SearchEngineMode that stands for a SearchMode
EngineModeOf(mode) ==
    CASE mode = "SearchMode::Exact" -> "SearchEngineMode::Exact"
      [] mode = "SearchMode::IgnoreCase" -> "SearchEngineMode::CaseInsensitive"
      [] mode = "SearchMode::Substring" -> "SearchEngineMode::Substring"

\* C31: for every flag combination that Cli::validate accepts,
\* Cli::search_mode and SearchEngine::from_cli select the same search mode;
\* with no mode flag set both select the case-insensitive default.
C31_ModesAgree ==
    (last_op = "parse_args" /\ last_ret.validate) =>
        LET cli == last_batch[1] IN
        /\ last_ret.from_cli = EngineModeOf(last_ret.search_mode)
        /\ mode_count(cli) = 0 => last_ret.search_mode = "SearchMode::IgnoreCase"

\* C32: after any sequence of public App operations, selected_index is a
\* valid index into search_results, or 0 when search_results is empty.
C32_SelectedIndexValid ==
    IF search_results = <<>>
    THEN selected_index = 0
    ELSE selected_index \in 0..(Len(search_results) - 1)

\* C33: the render cache is transparent: the line that
\* get_cached_highlighted_line(result) returns is the line that rendering
\* the result now would give, also for two results that share path, line
\* number and raw text but differ in base directory (hence display path).
C33_CacheTransparent ==
    last_op = "get_cached_highlighted_line" =>
        last_ret = format_for_tui_display(last_batch[1])

\* C34: after any sequence of start_search, update_file_count,
\* complete_search and reset, is_searching and is_complete are never both
\* true, and update_file_count changes only files_with_matches.
C34_ProgressFlagsExclusive ==
    /\ [](~(search_progress.is_searching /\ search_progress.is_complete))
    /\ [][last_op' = "update_file_count" =>
            /\ search_progress'.is_searching = search_progress.is_searching
            /\ search_progress'.is_complete = search_progress.is_complete
            /\ UNCHANGED <<search_results, selected_index, current_pattern,
                           should_quit, input_focus, progressive_load_status,
                           needs_progressive_load_check, highlighted_cache>>]_vars

\* update_file_count has raised the count of a search that was completed
C34_Witness ==
    /\ last_op = "update_file_count"
    /\ search_progress.is_complete
    /\ search_progress.files_with_matches > 0

\* C35: after start_new_search the status message describes the new search
\* ("Searching... 0 files found") until the controller reports progress for
\* it: a progressive status recorded for the previous pattern no longer
\* determines get_loading_message.
C35_NewSearchStatus ==
    last_op = "start_new_search" =>
        get_loading_message(progressive_load_status, search_progress)
           = <<"Searching... ", 0, " files found">>

\* C36: while the aggregator is disabled, add_results makes no lookup and
\* leaves the recency cache unchanged; set_enabled changes only the enabled
\* flag, and clear() leaves the enabled flag unchanged.
C36_DisabledAddLeavesCache ==
    [][/\ (~enabled /\ last_op' = "add_results") =>
            /\ last_lookups' = <<>>
            /\ metadata_cache' = metadata_cache
       /\ last_op' = "set_enabled" =>
            UNCHANGED <<global_results, metadata_cache, git_repo>>
       /\ last_op' = "clear" => UNCHANGED <<enabled, git_repo>>]_vars

\* A batch was appended in pass-through mode to a sorter that still holds
\* the times memoized while ranking was enabled.
C36_Witness ==
    /\ Added /\ ~enabled
    /\ last_batch # <<>>
    /\ metadata_cache # EmptyCache
    /\ KeysIn(last_batch) \ DOMAIN metadata_cache # {}

Running(routine) ==
    merge_call # None /\ unwrap(merge_call).routine = routine

\* C38: every add_results call terminates. While merge_sorted_results runs,
\* the number of elements moved is i + j with i <= n and j <= m, and the
\* routine can always either iterate or return; every iteration advances
\* exactly one of the two cursors by one and moves one element (or unwinds
\* with the panic of C7); the routine returns with i = n and j = m, after
\* n + m moves, leaving the n + m elements as the global order.
C38_MergeTerminates ==
    /\ [](Running("merge_sorted_results") =>
            LET call == unwrap(merge_call) IN
            /\ Len(call.merged) = call.i + call.j
            /\ call.i <= Len(global_results)
            /\ call.j <= Len(call.sorted_batch)
            /\ ENABLED (MergeIterate \/ MergeReturn))
    /\ [][Running("merge_sorted_results") =>
            LET call == unwrap(merge_call)
                n == Len(global_results)
                m == Len(call.sorted_batch)
            IN \/ /\ merge_call' # None
                  /\ LET next == unwrap(merge_call') IN
                     /\ \/ next.i = call.i + 1 /\ next.j = call.j
                        \/ next.i = call.i /\ next.j = call.j + 1
                     /\ Len(next.merged) = Len(call.merged) + 1
                     /\ next.sorted_batch = call.sorted_batch
                     /\ global_results' = global_results
               \/ /\ merge_call' = None
                  /\ panicked'
                  /\ Len(call.merged) < n + m
                  /\ global_results' = global_results
               \/ /\ merge_call' = None
                  /\ ~panicked'
                  /\ call.i = n /\ call.j = m
                  /\ Len(call.merged) = n + m
                  /\ global_results' = call.merged
                  /\ global_results' = merge_sorted_results(metadata_cache, global_results,
                                                            call.sorted_batch).merged]_vars

\* A merge of three elements, from both sequences, is about to return
C38_Witness ==
    /\ Running("merge_sorted_results")
    /\ MergeDone(global_results, unwrap(merge_call))
    /\ unwrap(merge_call).i >= 1
    /\ unwrap(merge_call).j >= 1
    /\ Len(unwrap(merge_call).merged) = 3

\* C39: merge_sorted_results_mut terminates on every input, within the
\* n + m moves of a merge, and when it returns the global order is the one
\* merge_sorted_results produces for the same global order and batch.
C39_MutMergeEquivalent ==
    /\ [](Running("merge_sorted_results_mut") =>
            Len(unwrap(merge_call).merged)
                <= Len(global_results) + Len(unwrap(merge_call).sorted_batch))
    /\ [][Running("merge_sorted_results_mut") /\ merge_call' = None /\ ~panicked' =>
            global_results' = merge_sorted_results(metadata_cache, global_results,
                                  unwrap(merge_call).sorted_batch).merged]_vars

====
